---------------------------- MODULE Spec2Model ----------------------------
(***************************************************************************)
(* KeyboardPredictor (keyboard_predictor.py): a session object that owns   *)
(* one NGramModel, buffers user input in user_history, trains the model on *)
(* the buffer when it reaches 100 entries, persists the model to           *)
(* model_path and exports a snapshot for aggregation.                      *)
(*                                                                         *)
(* ngram_model.py (class NGramModel) is imported by the source but is not  *)
(* part of it; its operations are modelled from the design document        *)
(* (sections 3 and 4.1) and are marked as such where they are defined.     *)
(* NGramModel.merge, which an aggregator applies to exported snapshots, is *)
(* modelled the same way, with a specification of its own (SpecMerge).     *)
(*                                                                         *)
(* A text is a sequence of one-character strings, a token is a sequence of *)
(* lower-case letters, a path is a sequence of path pieces (the piece      *)
(* ".pkl" is the substring str.replace looks for).                         *)
(***************************************************************************)
EXTENDS Integers, Sequences, FiniteSets, TLC

(***************************************************************************)
(* Program constants                                                       *)
(***************************************************************************)
\* len(self.user_history) >= 100
Threshold == 100
\* def __init__(self, model_path=None, n=3, sample_texts=None)
DefaultN == 3
\* def predict(self, context, num_predictions=3)
DefaultNumPredictions == 3

(***************************************************************************)
(* Bounds of the model                                                     *)
(***************************************************************************)
\* entries that may be ingested beyond the first Threshold ones
MaxExtra == 1
\* the last VarTail entries before the threshold are drawn from Texts, the
\* earlier ones are the filler text
VarTail == 1
\* a caller flushes by hand only while the buffer holds at most this many
MaxManualLen == 1
\* train calls that return normally
MaxTrains == 2
\* injected failures (train raising, model.save raising)
MaxFaults == 1
\* calls of load_model
MaxLoads == 1
\* calls of export_for_aggregation
MaxExports == 1

(***************************************************************************)
(* Texts and tokens                                                        *)
(***************************************************************************)
Letters == {"a", "b"}

Lower(c) == CASE c = "A" -> "a" [] c = "B" -> "b" [] OTHER -> c

IsWordChar(c) == Lower(c) \in Letters

FillerText == <<"a">>

Texts == { <<"B", ".", "a">>, <<>> }

Contexts == { <<"b", " ", "a">> }

\* a word token starts at position i
IsTokenStart(text, i) ==
  IsWordChar(text[i]) /\ (i = 1 \/ ~IsWordChar(text[i - 1]))

RECURSIVE TokenStarts(_, _, _)
\* the positions in lo..hi where a word token starts, in order
TokenStarts(text, lo, hi) ==
  IF lo > hi THEN <<>>
  ELSE IF lo = hi THEN IF IsTokenStart(text, lo) THEN <<lo>> ELSE <<>>
       ELSE LET mid == (lo + hi) \div 2
            IN  TokenStarts(text, lo, mid) \o TokenStarts(text, mid + 1, hi)

\* the token starting at position s: the letters up to the next boundary,
\* lower-cased
TokenAt(text, s) ==
  LET e == CHOOSE j \in s..Len(text) :
             /\ \A i \in s..j : IsWordChar(text[i])
             /\ (j = Len(text) \/ ~IsWordChar(text[j + 1]))
  IN  [i \in 1..(e - s + 1) |-> Lower(text[s + i - 1])]

\* the word tokens of a text in order: lower-cased, every other character
\* a boundary
Tokenize(text) ==
  LET starts == TokenStarts(text, 1, Len(text))
  IN  [j \in 1..Len(starts) |-> TokenAt(text, starts[j])]

RECURSIVE SumRange(_, _, _)
\* s[lo] + ... + s[hi]
SumRange(s, lo, hi) ==
  IF lo > hi THEN 0
  ELSE IF lo = hi THEN s[lo]
       ELSE LET mid == (lo + hi) \div 2
            IN  SumRange(s, lo, mid) + SumRange(s, mid + 1, hi)

SumSeq(s) == SumRange(s, 1, Len(s))

\* number of word tokens of every text of a list, summed
TokenTotal(texts) == SumSeq([i \in 1..Len(texts) |-> Len(Tokenize(texts[i]))])

(***************************************************************************)
(* NGramModel (ngram_model.py, not among the source files): modelled from  *)
(* the design document, sections 3 and 4.1.  A model is a record           *)
(*   [n, smoothing, models, word_count, total_words, vocabulary]           *)
(* where models maps a context (a sequence of at most n-1 tokens) to a     *)
(* map from next token to count.  vocabulary is [kind |-> "dict", counts]  *)
(* (token -> occurrence count) or [kind |-> "set", words]: the source      *)
(* tests for both representations (isinstance(..., set), hasattr(...,      *)
(* 'items')).                                                              *)
(***************************************************************************)
\* the smoothing parameter, a positive rational num/den
DefaultSmoothing == [num |-> 1, den |-> 10]

EmptyMap == [x \in {} |-> 0]

DictVocab(counts) == [kind |-> "dict", counts |-> counts]

SetVocab(words) == [kind |-> "set", words |-> words]

\* len(vocabulary), iteration over vocabulary
VocabWords(v) == IF v.kind = "dict" THEN DOMAIN v.counts ELSE v.words

\* NGramModel(n=n)
NewModel(n) ==
  [n |-> n, smoothing |-> DefaultSmoothing, models |-> EmptyMap,
   word_count |-> 0, total_words |-> 0, vocabulary |-> DictVocab(EmptyMap)]

Min(a, b) == IF a < b THEN a ELSE b

\* d[key], absent keys counting as 0
Get(d, key) == IF key \in DOMAIN d THEN d[key] ELSE 0

\* NGramModel.train(text): for every position i of the token sequence and
\* every context length k from 0 to n-1 (bounded by i),
\* models[context of length k ending before i][token i] += 1; vocabulary
\* and total_words count every token once
Train(m, text) ==
  LET tokens == Tokenize(text)
      N == Len(tokens)
      toks == {tokens[i] : i \in 1..N}
      Occ == {o \in (1..N) \X (0..(m.n - 1)) : o[2] <= o[1] - 1}
      \* the (context, token) pair counted at position o[1], length o[2]
      pair == [o \in Occ |->
                 <<SubSeq(tokens, o[1] - o[2], o[1] - 1), tokens[o[1]]>>]
      pairs == {pair[o] : o \in Occ}
      added == [p \in pairs |-> Cardinality({o \in Occ : pair[o] = p})]
      ctxs == {p[1] : p \in pairs}
      old(ctx) == IF ctx \in DOMAIN m.models THEN m.models[ctx] ELSE EmptyMap
      nexts(ctx) == DOMAIN old(ctx) \cup {p[2] : p \in {q \in pairs : q[1] = ctx}}
      seen == [tok \in toks |-> Cardinality({i \in 1..N : tokens[i] = tok})]
      v == IF m.vocabulary.kind = "dict"
           THEN DictVocab([tok \in DOMAIN m.vocabulary.counts \cup toks |->
                             Get(m.vocabulary.counts, tok) + Get(seen, tok)])
           ELSE SetVocab(m.vocabulary.words \cup toks)
  IN  [m EXCEPT
         !.models = [ctx \in DOMAIN m.models \cup ctxs |->
                       [tok \in nexts(ctx) |->
                          Get(old(ctx), tok) + Get(added, <<ctx, tok>>)]],
         !.vocabulary = v,
         !.word_count = Cardinality(VocabWords(v)),
         !.total_words = @ + N]

RECURSIVE TrainAll(_, _)
\* for text in sample_texts: self.model.train(text)
TrainAll(m, texts) ==
  IF texts = <<>> THEN m ELSE TrainAll(Train(m, Head(texts)), Tail(texts))

(***************************************************************************)
(* NGramModel.merge (design document, section 4.1)                         *)
(***************************************************************************)
\* merge fails with IncompatibleOrder unless the orders agree
MergeRaises(a, b) == a.n # b.n

\* two count maps added key by key, over the union of their keys
SumCounts(x, y) == [k \in DOMAIN x \cup DOMAIN y |-> Get(x, k) + Get(y, k)]

\* the count map taking y's count wherever y has one
OverwriteCounts(x, y) ==
  [k \in DOMAIN x \cup DOMAIN y |-> IF k \in DOMAIN y THEN y[k] ELSE x[k]]

\* the continuations a model has counted for a context
Continuations(m, ctx) == IF ctx \in DOMAIN m.models THEN m.models[ctx] ELSE EmptyMap

\* merge assigning the other model's counts instead of adding them
MergeOverwriting(a, b) ==
  [a EXCEPT
     !.models = [ctx \in DOMAIN a.models \cup DOMAIN b.models |->
                   OverwriteCounts(Continuations(a, ctx), Continuations(b, ctx))],
     !.vocabulary = DictVocab(OverwriteCounts(a.vocabulary.counts,
                                              b.vocabulary.counts)),
     !.word_count = a.word_count + b.word_count,
     !.total_words = a.total_words + b.total_words]

\* a.merge(b) for models of one order: every n-gram count of b is added
\* into a's table, vocabulary counts are summed per token, total_words and
\* word_count are the sums of the corresponding fields
Merge(a, b) ==
  [a EXCEPT
     !.models = [ctx \in DOMAIN a.models \cup DOMAIN b.models |->
                   SumCounts(Continuations(a, ctx), Continuations(b, ctx))],
     !.vocabulary = DictVocab(SumCounts(a.vocabulary.counts,
                                        b.vocabulary.counts)),
     !.word_count = a.word_count + b.word_count,
     !.total_words = a.total_words + b.total_words]

(***************************************************************************)
(* " ".join(self.user_history)                                             *)
(***************************************************************************)
RECURSIVE JoinRange(_, _, _)
\* entries[lo], ..., entries[hi] with one space between neighbours
JoinRange(entries, lo, hi) ==
  IF lo > hi THEN <<>>
  ELSE IF lo = hi THEN entries[lo]
       ELSE LET mid == (lo + hi) \div 2
            IN  JoinRange(entries, lo, mid) \o <<" ">>
                  \o JoinRange(entries, mid + 1, hi)

RECURSIVE ConcatRange(_, _, _)
\* entries[lo], ..., entries[hi] with nothing between neighbours
ConcatRange(entries, lo, hi) ==
  IF lo > hi THEN <<>>
  ELSE IF lo = hi THEN entries[lo]
       ELSE LET mid == (lo + hi) \div 2
            IN  ConcatRange(entries, lo, mid) \o ConcatRange(entries, mid + 1, hi)

\* "".join(self.user_history): the separator forgotten
JoinNoSeparator(entries) == ConcatRange(entries, 1, Len(entries))

Join(entries) == JoinRange(entries, 1, Len(entries))

(***************************************************************************)
(* NGramModel.predict_next_word (design document, section 4.1)             *)
(***************************************************************************)
CharRank(c) == CASE c = "a" -> 1 [] c = "b" -> 2 [] OTHER -> 0

\* lexicographic order of tokens
LexLess(u, v) ==
  \E i \in 1..(Len(v)) :
    /\ \A j \in 1..(i - 1) : j <= Len(u) /\ u[j] = v[j]
    /\ (i > Len(u) \/ (i <= Len(u) /\ CharRank(u[i]) < CharRank(v[i])))

\* the last j tokens
Suffix(tokens, j) == SubSeq(tokens, Len(tokens) - j + 1, Len(tokens))

\* the global unigram counts, used when no context has continuations
UnigramCounts(m) ==
  IF m.vocabulary.kind = "dict" THEN m.vocabulary.counts
  ELSE [w \in m.vocabulary.words |-> 1]

RECURSIVE SumOver(_, _)
\* the sum of d[k] over the keys
SumOver(d, keys) ==
  IF keys = {} THEN 0
  ELSE LET k == CHOOSE x \in keys : TRUE IN d[k] + SumOver(d, keys \ {k})

\* (count + alpha) / (total + alpha * |Vocabulary|) as <<numerator,
\* denominator>>, alpha = num/den
Score(m, counts, w) ==
  << counts[w] * m.smoothing.den + m.smoothing.num,
     SumOver(counts, DOMAIN counts) * m.smoothing.den
       + m.smoothing.num * Cardinality(VocabWords(m.vocabulary)) >>

\* w is ranked before v: higher score (within one context: higher count),
\* ties by lexicographic order
RankedBefore(counts, w, v) ==
  counts[w] > counts[v] \/ (counts[w] = counts[v] /\ LexLess(w, v))

\* NGramModel.predict_next_word(context, k): the top k continuations of the
\* longest suffix of the context (at most n-1 tokens) that has any, else the
\* top k unigrams, as a sequence of [word, score]
PredictNextWord(m, context, k) ==
  LET tokens == Tokenize(context)
      L == Min(Len(tokens), m.n - 1)
      hits == {j \in 0..L : Suffix(tokens, j) \in DOMAIN m.models}
      best == CHOOSE j \in hits : \A i \in hits : i <= j
      counts == IF hits # {} THEN m.models[Suffix(tokens, best)]
                ELSE UnigramCounts(m)
      W == DOMAIN counts
      rank == [w \in W |-> 1 + Cardinality({v \in W : RankedBefore(counts, v, w)})]
  IN  [i \in 1..Min(k, Cardinality(W)) |->
         LET w == CHOOSE x \in W : rank[x] = i
         IN  [word |-> w, score |-> Score(m, counts, w)]]

(***************************************************************************)
(* The file system: a map from path to file content.  A path is a sequence *)
(* of pieces; ".pkl" is a piece of its own.                                *)
(***************************************************************************)
NoPath == <<>>

\* self.model_path = model_path or "keyboard_model.pkl"
DefaultModelPath == <<"keyboard_model", ".pkl">>

Absent == [kind |-> "absent"]

Corrupt == [kind |-> "corrupt"]

\* what NGramModel.save writes
ModelFile(m) == [kind |-> "model", data |-> m]

\* what pickle.dump(export_data, f) writes
ExportFile(data) == [kind |-> "export", data |-> data]

RECURSIVE ReplacePkl(_)
\* path.replace('.pkl', '_export.pkl'): every occurrence is replaced
ReplacePkl(path) ==
  IF path = <<>> THEN <<>>
  ELSE IF Head(path) = ".pkl"
       THEN <<"_export", ".pkl">> \o ReplacePkl(Tail(path))
       ELSE <<Head(path)>> \o ReplacePkl(Tail(path))

\* a model trained elsewhere, of order 2
GoodModel == Train(NewModel(2), <<"a", " ", "b", " ", "a">>)

\* a model whose vocabulary is a set of words
LegacyModel ==
  Train([NewModel(3) EXCEPT !.vocabulary = SetVocab({})],
        <<"b", " ", "b", " ", "a">>)

GoodPath == <<"good", ".pkl">>

LegacyPath == <<"legacy", ".pkl">>

BadPath == <<"bad", ".pkl">>

MissingPath == <<"missing", ".pkl">>

PlainPath == <<"model">>

OutPath == <<"out", ".pkl">>

ModelPaths == {DefaultModelPath, GoodPath, BadPath, PlainPath}

LoadPaths == {GoodPath, LegacyPath, BadPath, MissingPath}

ExportPaths == {NoPath, OutPath}

AllPaths ==
  ModelPaths \cup LoadPaths \cup {OutPath} \cup {ReplacePkl(p) : p \in ModelPaths}

\* the files present before the session is constructed
InitialDisk ==
  [p \in AllPaths |->
     CASE p = GoodPath -> ModelFile(GoodModel)
       [] p = LegacyPath -> ModelFile(LegacyModel)
       [] p = BadPath -> Corrupt
       [] OTHER -> Absent]

\* os.path.exists(path)
Exists(d, path) == path \in DOMAIN d /\ d[path].kind # "absent"

\* NGramModel.load(path): the model read from the file, or an exception
LoadRaises(d, path) == ~Exists(d, path) \/ d[path].kind = "corrupt"

Loaded(d, path) == d[path].data

(***************************************************************************)
(* KeyboardPredictor                                                       *)
(***************************************************************************)
VARIABLES
  model,         \* self.model
  model_path,    \* self.model_path
  user_history,  \* self.user_history
  disk,          \* the file system
  outcome,       \* the last call: its name, arguments, result and the calls
                 \* it made, in order
  ctor,          \* the arguments the session was constructed with
  origin,        \* history: "fresh" while the held model is one the session
                 \* created, "loaded" once it came from a file
  ingested,      \* history: every text given to add_to_history, in order
  flushed,       \* history: the entries of every train call that returned
  budget,        \* history: how many trains, failures (of train or save,
                 \* of train alone), add_to_history calls that raised, loads
                 \* and exports there have been
  pc,            \* per thread: where it is inside add_to_history
  frame,         \* per thread: its local variables
  agg            \* the aggregator: the snapshots it was given, the ones it
                 \* has merged so far and the model it has accumulated

vars == <<model, model_path, user_history, disk, outcome, ctor, origin, ingested,
          flushed, budget, pc, frame, agg>>

Threads == {1, 2}

\* one call made by an operation: what, on what, and whether it returned
Ev(ev, arg, ok) == [ev |-> ev, arg |-> arg, ok |-> ok]

\* the object an operation runs on (self and the file system), with the
\* calls it has made so far, whether an exception is propagating, and the
\* entries it has trained on
Self ==
  [model |-> model, model_path |-> model_path, user_history |-> user_history,
   disk |-> disk, calls |-> <<>>, raised |-> FALSE, trained |-> <<>>]

\* save_model(): model.save may raise; the exception is caught and logged
save_model(s, saveOk) ==
  [s EXCEPT
     !.disk = IF saveOk THEN [@ EXCEPT ![s.model_path] = ModelFile(s.model)]
              ELSE @,
     !.calls = Append(@, Ev("save", s.model_path, saveOk))]

\* train_on_history leaving the buffer as it is after training
train_on_history_keeping(s, trainOk, saveOk) ==
  IF s.user_history = <<>> THEN s
  ELSE LET all_text == Join(s.user_history) IN
       IF ~trainOk
       THEN [s EXCEPT !.calls = Append(@, Ev("train", all_text, FALSE)),
                      !.raised = TRUE]
       ELSE save_model([s EXCEPT
                          !.model = Train(@, all_text),
                          !.calls = Append(@, Ev("train", all_text, TRUE)),
                          !.trained = @ \o s.user_history],
                       saveOk)

\* train_on_history without the test for an empty buffer
train_on_history_unguarded(s, trainOk, saveOk) ==
  LET all_text == Join(s.user_history) IN
  IF ~trainOk
  THEN [s EXCEPT !.calls = Append(@, Ev("train", all_text, FALSE)),
                 !.raised = TRUE]
  ELSE LET t == [s EXCEPT
                   !.model = Train(@, all_text),
                   !.calls = Append(@, Ev("train", all_text, TRUE)),
                   !.trained = @ \o s.user_history]
           u == save_model(t, saveOk)
       IN  [u EXCEPT !.user_history = <<>>,
                     !.calls = Append(@, Ev("clear", <<>>, TRUE))]

\* train_on_history()
train_on_history(s, trainOk, saveOk) ==
  IF s.user_history = <<>> THEN s
  ELSE LET all_text == Join(s.user_history) IN
       IF ~trainOk
       THEN [s EXCEPT !.calls = Append(@, Ev("train", all_text, FALSE)),
                      !.raised = TRUE]
       ELSE LET t == [s EXCEPT
                        !.model = Train(@, all_text),
                        !.calls = Append(@, Ev("train", all_text, TRUE)),
                        !.trained = @ \o s.user_history]
                u == save_model(t, saveOk)
            IN  [u EXCEPT !.user_history = <<>>,
                          !.calls = Append(@, Ev("clear", <<>>, TRUE))]

\* add_to_history flushing only once the buffer holds more than Threshold
add_to_history_late_flush(s, text, trainOk, saveOk) ==
  LET a == [s EXCEPT !.user_history = Append(@, text),
                     !.calls = Append(@, Ev("append", text, TRUE))]
  IN  IF Len(a.user_history) > Threshold
      THEN train_on_history(a, trainOk, saveOk)
      ELSE a

\* add_to_history(text)
add_to_history(s, text, trainOk, saveOk) ==
  LET a == [s EXCEPT !.user_history = Append(@, text),
                     !.calls = Append(@, Ev("append", text, TRUE))]
  IN  IF Len(a.user_history) >= Threshold
      THEN train_on_history(a, trainOk, saveOk)
      ELSE a

\* predict checking the buffer as add_to_history does
predict_flushing(s, context, num_predictions) ==
  LET t == IF Len(s.user_history) >= Threshold
           THEN train_on_history(s, TRUE, TRUE) ELSE s
  IN  [self |-> [t EXCEPT !.calls = Append(@, Ev("predict_next_word",
                                             <<context, num_predictions>>,
                                             TRUE))],
       result |-> PredictNextWord(t.model, context, num_predictions)]

\* predict(context, num_predictions): the session after the call, and the
\* value returned
predict(s, context, num_predictions) ==
  [self |-> [s EXCEPT !.calls = Append(@, Ev("predict_next_word",
                                             <<context, num_predictions>>,
                                             TRUE))],
   result |-> PredictNextWord(s.model, context, num_predictions)]

\* prepare_for_export()
prepare_for_export(s) ==
  IF s.model.vocabulary.kind = "set"
  THEN [s EXCEPT !.model.vocabulary =
                    DictVocab([w \in s.model.vocabulary.words |-> 1])]
  ELSE s

\* the export_data of export_for_aggregation
ExportData(m) ==
  [n |-> m.n, smoothing |-> m.smoothing, models |-> m.models,
   word_count |-> m.word_count, total_words |-> m.total_words,
   vocabulary |-> IF m.vocabulary.kind = "dict"
                  THEN DictVocab(m.vocabulary.counts)
                  ELSE DictVocab([w \in m.vocabulary.words |-> 1])]

\* export_for_aggregation calling prepare_for_export first
export_for_aggregation_preparing(s, export_path) ==
  LET t == prepare_for_export(s)
      path == IF export_path = NoPath THEN ReplacePkl(t.model_path)
              ELSE export_path
  IN  [self |-> [t EXCEPT !.disk = [@ EXCEPT ![path] = ExportFile(ExportData(t.model))],
                          !.calls = Append(@, Ev("dump", path, TRUE))],
       result |-> path]

\* export_for_aggregation(export_path): the session after the call, and the
\* path returned
export_for_aggregation(s, export_path) ==
  LET path == IF export_path = NoPath THEN ReplacePkl(s.model_path)
              ELSE export_path
  IN  [self |-> [s EXCEPT !.disk = [@ EXCEPT ![path] = ExportFile(ExportData(s.model))],
                          !.calls = Append(@, Ev("dump", path, TRUE))],
       result |-> path]

\* load_model falling back to a new model when the load fails, as __init__
\* does
load_model_fallback(s, path, saveOk) ==
  IF LoadRaises(s.disk, path)
  THEN [self |-> [s EXCEPT !.model = NewModel(DefaultN),
                           !.calls = Append(@, Ev("load", path, FALSE))],
        result |-> FALSE]
  ELSE [self |-> save_model([s EXCEPT !.model = Loaded(s.disk, path),
                                      !.calls = Append(@, Ev("load", path, TRUE))],
                            saveOk),
        result |-> TRUE]

\* load_model adopting the path it loaded from as self.model_path
load_model_adopting_path(s, path, saveOk) ==
  IF LoadRaises(s.disk, path)
  THEN [self |-> [s EXCEPT !.calls = Append(@, Ev("load", path, FALSE))],
        result |-> FALSE]
  ELSE [self |-> save_model([s EXCEPT !.model = Loaded(s.disk, path),
                                      !.model_path = path,
                                      !.calls = Append(@, Ev("load", path, TRUE))],
                            saveOk),
        result |-> TRUE]

\* load_model(path): the session after the call, and the value returned
load_model(s, path, saveOk) ==
  IF LoadRaises(s.disk, path)
  THEN [self |-> [s EXCEPT !.calls = Append(@, Ev("load", path, FALSE))],
        result |-> FALSE]
  ELSE [self |-> save_model([s EXCEPT !.model = Loaded(s.disk, path),
                                      !.calls = Append(@, Ev("load", path, TRUE))],
                            saveOk),
        result |-> TRUE]

\* __init__ creating its fallback model with the default order instead of n
KeyboardPredictor_init_default_n(d, path, n, sample_texts, saveOk) ==
  LET s0 == [model |-> NewModel(n),
             model_path |-> IF path = NoPath THEN DefaultModelPath ELSE path,
             user_history |-> <<>>, disk |-> d, calls |-> <<>>,
             raised |-> FALSE, trained |-> <<>>]
      s1 == IF path # NoPath /\ Exists(d, path)
            THEN IF LoadRaises(d, path)
                 THEN [s0 EXCEPT !.model = NewModel(DefaultN),
                                 !.calls = Append(@, Ev("load", path, FALSE))]
                 ELSE [s0 EXCEPT !.model = Loaded(d, path),
                                 !.calls = Append(@, Ev("load", path, TRUE))]
            ELSE [s0 EXCEPT
                    !.model = TrainAll(@, sample_texts),
                    !.calls = @ \o [i \in 1..Len(sample_texts) |->
                                      Ev("train", sample_texts[i], TRUE)]]
  IN  save_model(s1, saveOk)

\* KeyboardPredictor(model_path, n, sample_texts) on the file system d
KeyboardPredictor_init(d, path, n, sample_texts, saveOk) ==
  LET s0 == [model |-> NewModel(n),
             model_path |-> IF path = NoPath THEN DefaultModelPath ELSE path,
             user_history |-> <<>>, disk |-> d, calls |-> <<>>,
             raised |-> FALSE, trained |-> <<>>]
      s1 == IF path # NoPath /\ Exists(d, path)
            THEN IF LoadRaises(d, path)
                 THEN [s0 EXCEPT !.calls = Append(@, Ev("load", path, FALSE))]
                 ELSE [s0 EXCEPT !.model = Loaded(d, path),
                                 !.calls = Append(@, Ev("load", path, TRUE))]
            ELSE [s0 EXCEPT
                    !.model = TrainAll(@, sample_texts),
                    !.calls = @ \o [i \in 1..Len(sample_texts) |->
                                      Ev("train", sample_texts[i], TRUE)]]
  IN  save_model(s1, saveOk)

(***************************************************************************)
(* The session as a state machine: one action per method, each the whole   *)
(* call.                                                                   *)
(***************************************************************************)
CtorArgs ==
  { [model_path |-> NoPath, n |-> DefaultN, sample_texts |-> <<>>],
    [model_path |-> NoPath, n |-> 2,
     sample_texts |-> << <<"a", " ", "b">>, <<"b">> >>],
    [model_path |-> GoodPath, n |-> DefaultN,
     sample_texts |-> << <<"a", " ", "b">>, <<"b">> >>],
    [model_path |-> BadPath, n |-> 2,
     sample_texts |-> << <<"a", " ", "b">>, <<"b">> >>],
    [model_path |-> PlainPath, n |-> DefaultN, sample_texts |-> <<>>] }

NumPredictions == {1, DefaultNumPredictions}

NoBudgetUsed ==
  [trains |-> 0, faults |-> 0, train_faults |-> 0, ingest_faults |-> 0,
   loads |-> 0, exports |-> 0]

IdleFrame == [text |-> <<>>, entries |-> <<>>, all_text |-> <<>>]

\* no aggregation is going on
NoAggregation == [inputs |-> <<>>, taken |-> <<>>, acc |-> NewModel(DefaultN),
                  failed |-> FALSE]

\* the buffer has reached the threshold once: from here on every operation
\* is explored, before only add_to_history
Late == Len(ingested) >= Threshold

\* the texts a caller may hand to add_to_history in this state
EntryChoices ==
  IF Len(ingested) >= Threshold - VarTail /\ Len(ingested) < Threshold
  THEN Texts ELSE {FillerText}

\* whether this choice of failures is within the bounds: trains says
\* whether model.train is called, saves whether model.save is
FaultsAllowed(trains, trainOk, saves, saveOk) ==
  /\ trains \/ trainOk
  /\ (saves /\ (~trains \/ trainOk)) \/ saveOk
  /\ (trains /\ trainOk) => budget.trains < MaxTrains
  /\ (~trainOk \/ ~saveOk) => budget.faults < MaxFaults
  /\ ~(~trainOk /\ ~saveOk)

\* the state after an operation that left the session as s
Commit(s, op, args, result, used) ==
  /\ model' = s.model
  /\ model_path' = s.model_path
  /\ user_history' = s.user_history
  /\ disk' = s.disk
  /\ outcome' = [op |-> op, args |-> args, result |-> result,
                 calls |-> s.calls, raised |-> s.raised]
  /\ flushed' = flushed \o s.trained
  /\ budget' = [trains |-> budget.trains + (IF s.trained # <<>> THEN 1 ELSE 0),
                faults |-> budget.faults
                             + Cardinality({i \in 1..Len(s.calls) : ~s.calls[i].ok
                                              /\ s.calls[i].ev # "load"}),
                train_faults |-> budget.train_faults
                                   + Cardinality({i \in 1..Len(s.calls) :
                                                    ~s.calls[i].ok
                                                    /\ s.calls[i].ev = "train"}),
                ingest_faults |-> budget.ingest_faults
                                    + (IF op = "add_to_history" /\ s.raised
                                       THEN 1 ELSE 0),
                loads |-> budget.loads + used.loads,
                exports |-> budget.exports + used.exports]
  /\ origin' = IF \E i \in 1..Len(s.calls) :
                      s.calls[i].ev = "load" /\ s.calls[i].ok
               THEN "loaded" ELSE origin
  /\ UNCHANGED <<ctor, pc, frame, agg>>

NoUse == [loads |-> 0, exports |-> 0]

Init ==
  \E args \in CtorArgs, saveOk \in BOOLEAN :
    LET s == KeyboardPredictor_init(InitialDisk, args.model_path, args.n,
                                    args.sample_texts, saveOk)
    IN  /\ (~saveOk) => MaxFaults > 0
        /\ model = s.model
        /\ model_path = s.model_path
        /\ user_history = s.user_history
        /\ disk = s.disk
        /\ outcome = [op |-> "__init__", args |-> args, result |-> "None",
                      calls |-> s.calls, raised |-> s.raised]
        /\ ctor = args
        /\ origin = IF \E i \in 1..Len(s.calls) :
                          s.calls[i].ev = "load" /\ s.calls[i].ok
                    THEN "loaded" ELSE "fresh"
        /\ ingested = <<>>
        /\ flushed = <<>>
        /\ budget = [NoBudgetUsed EXCEPT !.faults = IF saveOk THEN 0 ELSE 1]
        /\ pc = [t \in Threads |-> "idle"]
        /\ frame = [t \in Threads |-> IdleFrame]
        /\ agg = NoAggregation

AddToHistory ==
  \E text \in EntryChoices, trainOk \in BOOLEAN, saveOk \in BOOLEAN :
    /\ Len(ingested) < Threshold + MaxExtra
    /\ FaultsAllowed(Len(user_history) + 1 >= Threshold, trainOk,
                     Len(user_history) + 1 >= Threshold, saveOk)
    /\ ingested' = Append(ingested, text)
    /\ Commit(add_to_history(Self, text, trainOk, saveOk),
              "add_to_history", <<text>>, "None", NoUse)

TrainOnHistory ==
  \E trainOk \in BOOLEAN, saveOk \in BOOLEAN :
    /\ Late
    /\ Len(user_history) <= MaxManualLen
    /\ FaultsAllowed(user_history # <<>>, trainOk, user_history # <<>>, saveOk)
    /\ Commit(train_on_history(Self, trainOk, saveOk),
              "train_on_history", <<>>, "None", NoUse)
    /\ UNCHANGED ingested

Predict ==
  \E context \in Contexts, k \in NumPredictions :
    /\ Late
    /\ LET r == predict(Self, context, k)
       IN  Commit(r.self, "predict", <<context, k>>, r.result, NoUse)
    /\ UNCHANGED ingested

PrepareForExport ==
  /\ Late
  /\ Commit(prepare_for_export(Self), "prepare_for_export", <<>>, TRUE, NoUse)
  /\ UNCHANGED ingested

ExportForAggregation ==
  \E export_path \in ExportPaths :
    /\ Late
    /\ budget.exports < MaxExports
    /\ LET r == export_for_aggregation(Self, export_path)
       IN  Commit(r.self, "export_for_aggregation", <<export_path>>, r.result,
                  [NoUse EXCEPT !.exports = 1])
    /\ UNCHANGED ingested

LoadModel ==
  \E path \in LoadPaths, saveOk \in BOOLEAN :
    /\ Late
    /\ budget.loads < MaxLoads
    /\ FaultsAllowed(FALSE, TRUE, ~LoadRaises(disk, path), saveOk)
    /\ LET r == load_model(Self, path, saveOk)
       IN  Commit(r.self, "load_model", <<path>>, r.result,
                  [NoUse EXCEPT !.loads = 1])
    /\ UNCHANGED ingested

Next ==
  \/ AddToHistory
  \/ TrainOnHistory
  \/ Predict
  \/ PrepareForExport
  \/ ExportForAggregation
  \/ LoadModel

Spec == Init /\ [][Next]_vars

(***************************************************************************)
(* The same methods called from two threads.  The class holds no lock, so  *)
(* the statements of add_to_history and train_on_history run by different  *)
(* threads interleave; a step is one statement (or call) of the method.    *)
(***************************************************************************)
\* self.user_history.append(text)
T_Append(t) ==
  \E text \in EntryChoices :
    /\ pc[t] = "idle"
    /\ Len(ingested) < Threshold + MaxExtra
    /\ user_history' = Append(user_history, text)
    /\ ingested' = Append(ingested, text)
    /\ pc' = [pc EXCEPT ![t] = "check"]
    /\ frame' = [frame EXCEPT ![t].text = text]
    /\ UNCHANGED <<model, model_path, disk, outcome, ctor, origin, flushed, budget,
                   agg>>

\* if len(self.user_history) >= 100: self.train_on_history()
T_Check(t) ==
  /\ pc[t] = "check"
  /\ pc' = [pc EXCEPT ![t] = IF Len(user_history) >= Threshold
                             THEN "flush" ELSE "idle"]
  /\ UNCHANGED <<model, model_path, user_history, disk, outcome, ctor, origin,
                 ingested, flushed, budget, frame, agg>>

\* if not self.user_history: return;  all_text = " ".join(self.user_history)
T_Join(t) ==
  /\ pc[t] = "flush"
  /\ IF user_history = <<>>
     THEN /\ pc' = [pc EXCEPT ![t] = "idle"]
          /\ frame' = frame
     ELSE /\ pc' = [pc EXCEPT ![t] = "train"]
          /\ frame' = [frame EXCEPT ![t].all_text = Join(user_history),
                                    ![t].entries = user_history]
  /\ UNCHANGED <<model, model_path, user_history, disk, outcome, ctor, origin,
                 ingested, flushed, budget, agg>>

\* self.model.train(all_text)
T_Train(t) ==
  /\ pc[t] = "train"
  /\ model' = Train(model, frame[t].all_text)
  /\ flushed' = flushed \o frame[t].entries
  /\ pc' = [pc EXCEPT ![t] = "save"]
  /\ UNCHANGED <<model_path, user_history, disk, outcome, ctor, origin,
                 ingested, budget, frame, agg>>

\* self.save_model()
T_Save(t) ==
  /\ pc[t] = "save"
  /\ disk' = save_model(Self, TRUE).disk
  /\ pc' = [pc EXCEPT ![t] = "clear"]
  /\ UNCHANGED <<model, model_path, user_history, outcome, ctor, origin,
                 ingested, flushed, budget, frame, agg>>

\* self.user_history = []
T_Clear(t) ==
  /\ pc[t] = "clear"
  /\ user_history' = <<>>
  /\ pc' = [pc EXCEPT ![t] = "idle"]
  /\ frame' = [frame EXCEPT ![t] = IdleFrame]
  /\ UNCHANGED <<model, model_path, disk, outcome, ctor, origin, ingested,
                 flushed, budget, agg>>

NextThreads ==
  \E t \in Threads :
    \/ T_Append(t)
    \/ T_Check(t)
    \/ T_Join(t)
    \/ T_Train(t)
    \/ T_Save(t)
    \/ T_Clear(t)

SpecThreads == Init /\ [][NextThreads]_vars

(***************************************************************************)
(* The aggregator: it is given three exported snapshots and merges them    *)
(* into one model, in any order, one at a time or two of them first.       *)
(***************************************************************************)
MergeTexts == { <<"a", " ", "b">>, <<"b", " ", "a", " ", "a">>, <<"b">>, <<>> }

\* the snapshots devices may contribute: export_data of models of order 2,
\* and one of order 3
Snapshots ==
  {ExportData(Train(NewModel(2), t)) : t \in MergeTexts}
    \cup {ExportData(Train(NewModel(3), <<"a", " ", "b">>))}

InitMerge ==
  LET s == KeyboardPredictor_init(InitialDisk, NoPath, DefaultN, <<>>, TRUE)
  IN  /\ model = s.model
      /\ model_path = s.model_path
      /\ user_history = s.user_history
      /\ disk = s.disk
      /\ outcome = [op |-> "__init__",
                    args |-> [model_path |-> NoPath, n |-> DefaultN,
                              sample_texts |-> <<>>],
                    result |-> "None", calls |-> s.calls, raised |-> s.raised]
      /\ ctor = [model_path |-> NoPath, n |-> DefaultN, sample_texts |-> <<>>]
      /\ origin = "fresh"
      /\ ingested = <<>>
      /\ flushed = <<>>
      /\ budget = NoBudgetUsed
      /\ pc = [t \in Threads |-> "idle"]
      /\ frame = [t \in Threads |-> IdleFrame]
      /\ \E A \in Snapshots, B \in Snapshots, C \in Snapshots :
           agg = [inputs |-> <<A, B, C>>, taken |-> <<>>, acc |-> NewModel(A.n),
                  failed |-> FALSE]

Taken(i) == \E k \in 1..Len(agg.taken) : agg.taken[k] = i

\* the aggregate starts as one of the snapshots
MergeFirst(i) ==
  /\ agg.taken = <<>>
  /\ agg' = [agg EXCEPT !.acc = agg.inputs[i], !.taken = <<i>>]
  /\ UNCHANGED <<model, model_path, user_history, disk, outcome, ctor, origin,
                 ingested, flushed, budget, pc, frame>>

\* acc.merge(inputs[i])
MergeNext(i) ==
  /\ agg.taken # <<>> /\ ~Taken(i) /\ ~agg.failed
  /\ agg' = IF MergeRaises(agg.acc, agg.inputs[i])
            THEN [agg EXCEPT !.failed = TRUE]
            ELSE [agg EXCEPT !.acc = Merge(agg.acc, agg.inputs[i]),
                             !.taken = Append(@, i)]
  /\ UNCHANGED <<model, model_path, user_history, disk, outcome, ctor, origin,
                 ingested, flushed, budget, pc, frame>>

\* inputs[i].merge(inputs[j]), then acc.merge of the result
MergeGroup(i, j) ==
  /\ Len(agg.taken) = 1 /\ i # j /\ ~Taken(i) /\ ~Taken(j) /\ ~agg.failed
  /\ agg' = IF MergeRaises(agg.inputs[i], agg.inputs[j])
               \/ MergeRaises(agg.acc, agg.inputs[i])
            THEN [agg EXCEPT !.failed = TRUE]
            ELSE [agg EXCEPT
                    !.acc = Merge(agg.acc, Merge(agg.inputs[i], agg.inputs[j])),
                    !.taken = @ \o <<i, j>>]
  /\ UNCHANGED <<model, model_path, user_history, disk, outcome, ctor, origin,
                 ingested, flushed, budget, pc, frame>>

NextMerge ==
  \/ \E i \in 1..3 : MergeFirst(i)
  \/ \E i \in 1..3 : MergeNext(i)
  \/ \E i \in 1..3, j \in 1..3 : MergeGroup(i, j)

SpecMerge == InitMerge /\ [][NextMerge]_vars

(***************************************************************************)
(* Properties                                                              *)
(***************************************************************************)
CallNames(calls) == [i \in 1..Len(calls) |-> calls[i].ev]

RECURSIVE Offsets(_, _, _, _)
\* <<base, base + w[lo], base + w[lo] + w[lo+1], ...>>, one per index lo..hi
Offsets(w, lo, hi, base) ==
  IF lo > hi THEN <<>>
  ELSE IF lo = hi THEN <<base>>
       ELSE LET mid == (lo + hi) \div 2
            IN  Offsets(w, lo, mid, base)
                  \o Offsets(w, mid + 1, hi, base + SumRange(w, lo, mid))

\* t is the entries es in order with exactly one space between neighbours:
\* entry i lies at offset off[i], followed by a space unless it is the last
IsSpaceJoin(t, es) ==
  LET n == Len(es)
      w == [j \in 1..n |-> Len(es[j]) + 1]
      off == Offsets(w, 1, n, 0)
  IN  /\ Len(t) = IF n = 0 THEN 0 ELSE SumRange(w, 1, n) - 1
      /\ \A i \in 1..n :
           /\ SubSeq(t, off[i] + 1, off[i] + Len(es[i])) = es[i]
           /\ i < n => t[off[i] + Len(es[i]) + 1] = " "

\* this step is a call of add_to_history
IngestStep ==
  outcome'.op = "add_to_history" /\ ingested' = Append(ingested, outcome'.args[1])

CallFailed(calls, ev) == \E i \in 1..Len(calls) : calls[i].ev = ev /\ ~calls[i].ok

\* C2 as stated: in any flush during which training fails or persisting the
\* model fails, the buffer is not cleared and still holds exactly the
\* entries it held before the flush.
C2_FlushAllOrNothing ==
  [][(/\ outcome'.op \in {"add_to_history", "train_on_history"}
      /\ budget'.faults = budget.faults + 1
      /\ CallFailed(outcome'.calls, "train") \/ CallFailed(outcome'.calls, "save"))
     => user_history' = IF outcome'.op = "add_to_history"
                        THEN Append(user_history, outcome'.args[1])
                        ELSE user_history]_vars

\* C3: a load_model whose deserialization fails leaves the held model and
\* the file at model_path (indeed every file) as they were and returns
\* False.
C3_FailedLoadKeepsModel ==
  [][(/\ outcome'.op = "load_model"
      /\ budget'.loads = budget.loads + 1
      /\ disk[outcome'.args[1]].kind \in {"absent", "corrupt"})
     => /\ model' = model
        /\ disk' = disk
        /\ model_path' = model_path
        /\ outcome'.result = FALSE]_vars

\* a load_model has just failed on a session that holds a trained model
C3_Witness ==
  /\ outcome.op = "load_model"
  /\ CallFailed(outcome.calls, "load")
  /\ model.total_words >= Threshold
  /\ disk[model_path] = ModelFile(model)

\* C4 as stated: a deserialization error raised while loading a model, in
\* load_model or during construction, reaches the caller as that error.
C4_LoadErrorSurfaced ==
  CallFailed(outcome.calls, "load") => outcome.raised

\* C6: predict returns exactly predict_next_word(context, k) of the held
\* model, makes no other call, and leaves the buffer, the model, model_path
\* and every file unchanged, whatever the buffer length.
C6_PredictPassThrough ==
  [][outcome'.op = "predict" =>
       /\ outcome'.result =
            PredictNextWord(model, outcome'.args[1], outcome'.args[2])
       /\ outcome'.calls = <<Ev("predict_next_word", outcome'.args, TRUE)>>
       /\ ~outcome'.raised
       /\ UNCHANGED <<model, user_history, model_path, disk, flushed>>]_vars

\* predict has just returned suggestions while the buffer holds at least
\* Threshold entries (an earlier train raised)
C6_Witness ==
  /\ outcome.op = "predict"
  /\ outcome.result # <<>>
  /\ Len(user_history) >= Threshold

\* C7: export_for_aggregation leaves the held model (all six fields), the
\* buffer and model_path unchanged and trains nothing.
C7_ExportLeavesSession ==
  [][outcome'.op = "export_for_aggregation" =>
       /\ UNCHANGED <<model, user_history, model_path, flushed>>
       /\ \A i \in 1..Len(outcome'.calls) : outcome'.calls[i].ev # "train"]_vars

\* an export has just been written while the buffer is not empty and the
\* held model's vocabulary is a set
C7_Witness ==
  /\ outcome.op = "export_for_aggregation"
  /\ disk[outcome.result].kind = "export"
  /\ user_history # <<>>
  /\ model.vocabulary.kind = "set"

\* a snapshot was given to the constructor and is valid
SnapshotGiven ==
  /\ ctor.model_path # NoPath
  /\ InitialDisk[ctor.model_path].kind = "model"

\* the sample texts the constructor trains on: none when a file exists at
\* model_path, readable or not
PreTrained ==
  IF ctor.model_path # NoPath /\ InitialDisk[ctor.model_path].kind # "absent"
  THEN <<>> ELSE ctor.sample_texts

\* C8: after construction the buffer is empty; the model is the one read
\* from the snapshot if one was given and is valid, otherwise a new model of
\* the given order that no history has been trained into (the sample texts
\* have, when no file was found).
C8_SessionCreation ==
  outcome.op = "__init__" =>
    /\ user_history = <<>>
    /\ ingested = <<>> /\ flushed = <<>>
    /\ IF SnapshotGiven THEN model = InitialDisk[ctor.model_path].data
       ELSE /\ model.n = ctor.n
            /\ model = TrainAll(NewModel(ctor.n), PreTrained)

\* a session has just been constructed on a corrupt file with an order that
\* is not the default: it holds an empty model of that order
C8_Witness ==
  /\ outcome.op = "__init__"
  /\ ctor.model_path = BadPath
  /\ ctor.n # DefaultN
  /\ model = NewModel(ctor.n)

\* how often the model has seen the word w
OccurrenceCount(m, w) ==
  IF m.vocabulary.kind = "dict" THEN m.vocabulary.counts[w]
  ELSE IF <<>> \in DOMAIN m.models THEN Get(m.models[<<>>], w) ELSE 0

\* C9 as stated: the snapshot written by export has a vocabulary that maps
\* exactly the model's words to the model's occurrence counts, and its
\* order, smoothing, n-gram table, word_count and total_words are the held
\* model's.
C9_ExportSnapshot ==
  outcome.op = "export_for_aggregation" =>
    LET snap == disk[outcome.result].data IN
      /\ disk[outcome.result].kind = "export"
      /\ snap.vocabulary.kind = "dict"
      /\ DOMAIN snap.vocabulary.counts = VocabWords(model.vocabulary)
      /\ \A w \in VocabWords(model.vocabulary) :
           snap.vocabulary.counts[w] = OccurrenceCount(model, w)
      /\ snap.n = model.n
      /\ snap.smoothing = model.smoothing
      /\ snap.models = model.models
      /\ snap.word_count = model.word_count
      /\ snap.total_words = model.total_words

C5_NoEntryDiscarded ==
  Len(ingested) <= Len(flushed) + Len(user_history)

\* the counts of a model: n-gram counts, vocabulary counts, word_count and
\* total_words
Counts(m) == <<m.models, m.vocabulary, m.word_count, m.total_words>>

\* C11: for snapshots A, B, C of one order, merge(merge(A,B),C),
\* merge(A,merge(B,C)) and merge(merge(A,C),B) have identical n-gram counts,
\* vocabulary counts, word_count and total_words, and so has the aggregate
\* the aggregator reaches in whichever order and grouping it merged them.
C11_MergeOrderIrrelevant ==
  LET A == agg.inputs[1]
      B == agg.inputs[2]
      C == agg.inputs[3]
  IN  (Len(agg.inputs) = 3 /\ A.n = B.n /\ B.n = C.n) =>
        /\ Counts(Merge(Merge(A, B), C)) = Counts(Merge(A, Merge(B, C)))
        /\ Counts(Merge(Merge(A, B), C)) = Counts(Merge(Merge(A, C), B))
        /\ Len(agg.taken) = 3 => Counts(agg.acc) = Counts(Merge(Merge(A, B), C))

\* three different snapshots that share words have been merged into one
\* aggregate, starting from the third
C11_Witness ==
  /\ Len(agg.taken) = 3
  /\ agg.taken[1] = 3
  /\ \A i \in 1..3, j \in 1..3 : i # j => agg.inputs[i] # agg.inputs[j]
  /\ \A i \in 1..3 : agg.inputs[i].total_words > 0
  /\ Get(agg.acc.vocabulary.counts, <<"b">>) = 3

\* C12: train_on_history called with an empty buffer is a no-op and not an
\* error: train is not called, nothing is persisted, and the model, the
\* buffer and every file are unchanged.
C12_EmptyFlushNoOp ==
  [][(outcome'.op = "train_on_history" /\ user_history = <<>>) =>
       /\ outcome'.calls = <<>>
       /\ ~outcome'.raised
       /\ UNCHANGED <<model, user_history, disk, model_path, flushed>>]_vars

\* train_on_history has just returned on an empty buffer while the file at
\* model_path is not the held model (the save of the last flush failed):
\* it made no call
C12_Witness ==
  /\ outcome.op = "train_on_history"
  /\ outcome.calls = <<>>
  /\ user_history = <<>>
  /\ Len(flushed) >= Threshold
  /\ disk[model_path] # ModelFile(model)

\* the calls of one kind among the calls of an operation, in order
CallsOf(calls, ev) == SelectSeq(calls, LAMBDA c : c.ev = ev)

\* C13 as stated: when construction ends with a newly created model and
\* sample_texts is not empty, the model has been trained on every sample
\* text exactly once, in list order, before the initial save; when it ends
\* with a loaded model, no sample text is trained on.
C13_NewModelPreTrained ==
  outcome.op = "__init__" =>
    LET calls == outcome.calls
        samples == ctor.sample_texts
    IN  IF origin = "loaded"
        THEN CallsOf(calls, "train") = <<>>
        ELSE samples # <<>> =>
               /\ CallsOf(calls, "train") =
                    [i \in 1..Len(samples) |-> Ev("train", samples[i], TRUE)]
               /\ calls[Len(calls)].ev = "save"
               /\ model = TrainAll(NewModel(ctor.n), samples)

\* C14: no ingested entry is lost or trained twice: as long as no train call
\* has failed, the entries passed to the successive train calls, followed by
\* the entries in the buffer, are the ingested entries in ingestion order.
C14_EntriesTrainedOnce ==
  budget.train_faults = 0 => flushed \o user_history = ingested

\* two flushes (one at the threshold, one by hand) and a load_model have
\* taken place, and no train call has failed
C14_Witness ==
  /\ budget.train_faults = 0
  /\ budget.trains = 2
  /\ budget.loads = 1
  /\ Len(ingested) = Threshold + 1
  /\ user_history = <<>>

\* C15: as long as every add_to_history has returned normally, the buffer
\* holds strictly fewer than Threshold entries between operations.
C15_BufferBelowThreshold ==
  budget.ingest_faults = 0 => Len(user_history) < Threshold

\* every add_to_history has returned normally, the buffer was flushed at
\* the threshold, and a later train_on_history raised and left its entry
\* in the buffer
C15_Witness ==
  /\ budget.ingest_faults = 0
  /\ budget.train_faults = 1
  /\ Len(ingested) = Threshold + 1
  /\ Len(flushed) = Threshold
  /\ Len(user_history) = 1

\* C16 as stated: export_for_aggregation called without an export_path
\* writes to a location different from model_path, and the file at
\* model_path is afterwards what it was (the model last persisted).
C16_DefaultExportSparesModelFile ==
  [][(outcome'.op = "export_for_aggregation" /\ outcome'.args[1] = NoPath) =>
       /\ outcome'.result # model_path
       /\ disk'[model_path] = disk[model_path]]_vars

\* C17 as stated: provided no save attempt has failed, after construction
\* and after every operation the file at model_path holds the model the
\* session holds in memory.
C17_PersistedTracksModel ==
  budget.faults = budget.train_faults => disk[model_path] = ModelFile(model)

\* this step is a call of load_model
LoadStep == outcome'.op = "load_model" /\ budget'.loads = budget.loads + 1

\* this step is a train_on_history whose train call returned
ManualFlushStep ==
  /\ outcome'.op = "train_on_history"
  /\ budget'.trains = budget.trains + 1

=============================================================================
